---- MODULE Spec2Model ----
(***************************************************************************)
(* fancygene/formats/gff.py: extract_features_coord, sort_features and     *)
(* stat_features, modelled over files of characters.  A string is a        *)
(* sequence of one-character strings, a file is the sequence of its        *)
(* characters, and the string methods the code calls (strip, split,        *)
(* startswith, int, re.match, re.search, sorted) are operators that        *)
(* compute what Python computes on the characters used here.               *)
(***************************************************************************)
EXTENDS Integers, Sequences, FiniteSets, TLC

VARIABLES
    op,              \* which function of gff.py the behaviour runs
    pc,              \* position inside the running function
    printed,         \* what the function has printed to stdout, in order
    \* ---- sort_features
    file,            \* content of file_path (NoFile when it does not exist)
    file_format,     \* 'gff3' or 'gtf2'
    output,          \* content of output_file
    lines,           \* local: lines
    sorted_lines,    \* local: sorted_lines
    rerun,           \* TRUE once the caller has run sort_features on its own output
    \* ---- stat_features
    feed,            \* the kind of file stat_features reads
    gff,             \* the lines of the file consumed so far by `for line in gff`
    gene_lengths, mRNA_lengths, mRNA_count_per_gene,
    CDS_lengths_per_mRNA, CDS_count_per_mRNA,
    exon_lengths_per_mRNA, exon_count_per_mRNA, exon_end,
    intron_lengths_per_mRNA, intron_count_per_mRNA,
    five_prime_utr_lengths_per_mRNA, three_prime_utr_lengths_per_mRNA,
    \* ---- extract_features_coord
    f,               \* the lines of the file consumed so far by `for line in f`
    call,            \* the arguments: <<file_format, feature, key>>
    coord,           \* the defaultdict(list): pairs <<key, list>> in insertion order
    attributes,      \* local: attributes, the list of pieces and then the dict
    raised,          \* the exception that left extract_features_coord, or "none"
    \* ---- plots/gene.py: Gene
    exon_data,       \* the argument `data` of Gene.add_exons: a list of [start, end]
    feature_data,    \* self.feature_data: pairs <<feature, array>> in insertion order
    introns          \* what get_introns_from_exons returned

sortVars == <<file, file_format, output, lines, sorted_lines, rerun>>
statVars == <<gff, gene_lengths, mRNA_lengths, mRNA_count_per_gene,
              CDS_lengths_per_mRNA, CDS_count_per_mRNA,
              exon_lengths_per_mRNA, exon_count_per_mRNA, exon_end,
              intron_lengths_per_mRNA, intron_count_per_mRNA,
              five_prime_utr_lengths_per_mRNA, three_prime_utr_lengths_per_mRNA>>
coordVars == <<f, call, coord, attributes, raised>>
geneVars == <<exon_data, feature_data, introns>>
vars == <<op, pc, printed, feed, sortVars, statVars, coordVars, geneVars>>

\* ------------------------------------------------------------------ bounds
\* most lines in an input file of sort_features
MaxLines == 3
\* most lines stat_features consumes
MaxRecords == 4
\* most lines extract_features_coord consumes
MaxRows == 3
\* most rows in the data of Gene.add_exons
MaxExons == 3
\* largest coordinate of an exon
MaxCoord == 4

\* ----------------------------------------------------------------- strings
TAB == "\t"
NL == "\n"
Upper == <<"A","B","C","D","E","F","G","H","I","J","K","L","M",
           "N","O","P","Q","R","S","T","U","V","W","X","Y","Z">>
Lower == <<"a","b","c","d","e","f","g","h","i","j","k","l","m",
           "n","o","p","q","r","s","t","u","v","w","x","y","z">>
Digits == <<"0","1","2","3","4","5","6","7","8","9">>

IndexIn(c, seq) == CHOOSE i \in 1..Len(seq) : seq[i] = c
InSeq(c, seq) == \E i \in 1..Len(seq) : seq[i] = c

\* ord(c): the code point, which is what Python compares strings by
ord(c) ==
    CASE c = TAB -> 9
      [] c = NL -> 10
      [] c = " " -> 32
      [] c = "\"" -> 34
      [] c = "#" -> 35
      [] c = "+" -> 43
      [] c = "-" -> 45
      [] c = "." -> 46
      [] c = ";" -> 59
      [] c = "=" -> 61
      [] c = "_" -> 95
      [] InSeq(c, Digits) -> 47 + IndexIn(c, Digits)
      [] InSeq(c, Upper) -> 64 + IndexIn(c, Upper)
      [] InSeq(c, Lower) -> 96 + IndexIn(c, Lower)

\* str.isspace() on the characters of the model
isspace(c) == c \in {" ", TAB, NL}
\* \w of the re module
isword(c) == InSeq(c, Digits) \/ InSeq(c, Upper) \/ InSeq(c, Lower) \/ c = "_"
isdigit(c) == InSeq(c, Digits)

Front(s) == SubSeq(s, 1, Len(s) - 1)
Last(s) == s[Len(s)]

RECURSIVE lstrip(_)
lstrip(s) == IF s # <<>> /\ isspace(Head(s)) THEN lstrip(Tail(s)) ELSE s
RECURSIVE rstrip(_)
rstrip(s) == IF s # <<>> /\ isspace(Last(s)) THEN rstrip(Front(s)) ELSE s
\* str.strip(): leading and trailing whitespace removed
strip(s) == rstrip(lstrip(s))

\* str.startswith(prefix)
startswith(s, prefix) ==
    Len(s) >= Len(prefix) /\ SubSeq(s, 1, Len(prefix)) = prefix

\* str.split(sep) for a one-character sep: the pieces between the places of
\* sep, always at least one piece
RECURSIVE cuts(_, _, _)
cuts(s, sep, i) ==
    IF i > Len(s) THEN <<Len(s) + 1>>
    ELSE IF s[i] = sep THEN <<i>> \o cuts(s, sep, i + 1)
    ELSE cuts(s, sep, i + 1)
split(s, sep) ==
    LET at == <<0>> \o cuts(s, sep, 1)
    IN  [n \in 1..(Len(at) - 1) |-> SubSeq(s, at[n] + 1, at[n + 1] - 1)]

\* sep.join(list)
RECURSIVE join(_, _)
join(sep, list) ==
    IF list = <<>> THEN <<>>
    ELSE IF Len(list) = 1 THEN list[1]
    ELSE list[1] \o <<sep>> \o join(sep, Tail(list))

\* int(s): surrounding whitespace is dropped, one sign is allowed, and the rest
\* must be a non-empty run of decimal digits; anything else is a ValueError.
RECURSIVE digitsValue(_)
digitsValue(s) ==
    IF s = <<>> THEN 0 ELSE 10 * digitsValue(Front(s)) + (IndexIn(Last(s), Digits) - 1)
unsigned(s) == IF s # <<>> /\ Head(s) \in {"+", "-"} THEN Tail(s) ELSE s
isint(s) ==
    LET d == unsigned(strip(s))
    IN  d # <<>> /\ \A i \in 1..Len(d) : isdigit(d[i])
int(s) ==
    LET t == strip(s)
    IN  IF t # <<>> /\ Head(t) = "-" THEN 0 - digitsValue(unsigned(t))
        ELSE digitsValue(unsigned(t))

\* a < b for two str, as Python orders them: by code point, a proper prefix first
RECURSIVE strLess(_, _)
strLess(a, b) ==
    IF b = <<>> THEN FALSE
    ELSE IF a = <<>> THEN TRUE
    ELSE IF Head(a) = Head(b) THEN strLess(Tail(a), Tail(b))
    ELSE ord(Head(a)) < ord(Head(b))

\* file.readlines() / iterating a text file: the pieces end with their "\n",
\* the last one only when the file ends with one
readlines(s) ==
    LET ends == {i \in 1..Len(s) : s[i] = NL \/ i = Len(s)}
        upto(e) == {j \in ends : j <= e}
        nth(k) == CHOOSE e \in ends : Cardinality(upto(e)) = k
        after(k) == IF k = 0 THEN 1 ELSE nth(k) + 1
    IN  [k \in 1..Cardinality(ends) |-> SubSeq(s, after(k - 1), nth(k))]

\* ----------------------------------------------------------- file content
gene == <<"g","e","n","e">>
mRNA == <<"m","R","N","A">>
exon == <<"e","x","o","n">>
CDS == <<"C","D","S">>
five_prime_UTR == <<"f","i","v","e","_","p","r","i","m","e","_","U","T","R">>
three_prime_UTR == <<"t","h","r","e","e","_","p","r","i","m","e","_","U","T","R">>
transcript == <<"t","r","a","n","s","c","r","i","p","t">>
start_codon == <<"s","t","a","r","t","_","c","o","d","o","n">>
stop_codon == <<"s","t","o","p","_","c","o","d","o","n">>
UTR == <<"U","T","R">>
tRNA == <<"t","R","N","A">>

\* the nine tab-separated columns of a record (source, score and phase fixed)
Row9(seqid, type, start, end, strand, column9) ==
    join(TAB, <<seqid, <<".">>, type, start, end, <<".">>, strand, <<".">>, column9>>)
Row(seqid, type, start, end, column9) ==
    Row9(seqid, type, start, end, <<"+">>, column9)

\* the content of a path at which there is no file
NoFile == <<"no such file">>

\* every sequence over S of at most n elements
SeqsUpTo(S, n) == UNION {[1..k -> S] : k \in 0..n}

\* the file whose lines are ls, each ended by "\n"
RECURSIVE FileOf(_)
FileOf(ls) == IF ls = <<>> THEN <<>> ELSE Append(Head(ls), NL) \o FileOf(Tail(ls))

c1 == <<"c","1">>
c2 == <<"c","2">>
c10 == <<"c","1","0">>
\* the lines the input files of sort_features are made of: records of listed
\* and unlisted types, two records with one key, a record with an empty last
\* column, a comment, a '#' behind a blank, a blank line and a line whose
\* start is no integer
SortPool ==
    { Row(c1, gene, <<"1">>, <<"5">>, <<"I","D","=","g">>),
      Row(c1, gene, <<"1">>, <<"5">>, <<>>),
      Row(c1, mRNA, <<"1">>, <<"3">>, <<"I","D","=","m">>),
      Row(c1, transcript, <<"1">>, <<"4">>, <<"I","D","=","r">>),
      Row(c10, exon, <<"1","0">>, <<"1","2">>, <<"I","D","=","e">>),
      Row(c10, exon, <<"2">>, <<"5">>, <<"I","D","=","f">>),
      Row(c2, gene, <<"1">>, <<"5">>, <<"I","D","=","k">>),
      <<" ">> \o Row(<<"#","c">>, gene, <<"1">>, <<"5">>, <<"I","D","=","x">>),
      <<"#">> \o Row(c1, gene, <<"1">>, <<"5">>, <<"I","D","=","y">>),
      <<" ", TAB>>,
      join(TAB, <<c1, <<".">>, gene, <<"x">>, <<"5">>>>) }

SortFiles == {FileOf(ls) : ls \in SeqsUpTo(SortPool, MaxLines)}

\* ------------------------------------------------------------ sort_features
\* feature_order with the gff3 table taken for every format
feature_order_gff3_only(fmt) ==
    {<<gene, 1>>, <<mRNA, 2>>, <<exon, 3>>, <<CDS, 4>>,
     <<five_prime_UTR, 5>>, <<three_prime_UTR, 6>>}

\* the formats the dict of dicts has an entry for
Formats == {"gff3", "gtf2"}
\* the feature_order dict of the format: pairs (feature, rank)
feature_order(fmt) ==
    CASE fmt = "gff3" ->
           {<<gene, 1>>, <<mRNA, 2>>, <<exon, 3>>, <<CDS, 4>>,
            <<five_prime_UTR, 5>>, <<three_prime_UTR, 6>>}
      [] fmt = "gtf2" ->
           {<<gene, 1>>, <<transcript, 2>>, <<exon, 3>>, <<CDS, 4>>,
            <<start_codon, 5>>, <<stop_codon, 6>>, <<UTR, 7>>}

\* dict.get(k, default)
get(dict, k, default) ==
    IF \E e \in dict : e[1] = k THEN (CHOOSE e \in dict : e[1] = k)[2] ELSE default

\* the default rank of a feature the table does not list
UnknownRank == 99

\* sort_key(line): (chromosome, start, feature_order.get(feature, 99), end)
sort_key(line, fmt) ==
    LET cols == split(line, TAB)
    IN  <<cols[1], int(cols[4]), get(feature_order(fmt), cols[3], UnknownRank), int(cols[5])>>

\* the exception sort_key(line) raises, "none" when it returns
sort_key_raises(line, fmt) ==
    LET cols == split(line, TAB)
    IN  IF Len(cols) < 4 THEN "IndexError"
        ELSE IF ~isint(cols[4]) THEN "ValueError"
        ELSE IF Len(cols) < 5 THEN "IndexError"
        ELSE IF ~isint(cols[5]) THEN "ValueError"
        ELSE IF fmt \notin Formats THEN "AttributeError"
        ELSE "none"

\* k1 < k2 for two key tuples: Python compares tuples item by item
tupleLess(k1, k2) ==
    \/ strLess(k1[1], k2[1])
    \/ k1[1] = k2[1] /\ k1[2] < k2[2]
    \/ k1[1] = k2[1] /\ k1[2] = k2[2] /\ k1[3] < k2[3]
    \/ k1[1] = k2[1] /\ k1[2] = k2[2] /\ k1[3] = k2[3] /\ k1[4] < k2[4]

\* insort that puts an item before the placed items of the same key
RECURSIVE insort_before_equal(_, _, _)
insort_before_equal(done, x, fmt) ==
    IF done = <<>> THEN <<x>>
    ELSE IF ~tupleLess(sort_key(Last(done), fmt), sort_key(x, fmt))
         THEN Append(insort_before_equal(Front(done), x, fmt), Last(done))
         ELSE Append(done, x)

\* sorted(list, key=sort_key): a stable sort; each item goes after the items
\* already placed whose key is not greater than its own
RECURSIVE insort(_, _, _)
insort(done, x, fmt) ==
    IF done = <<>> THEN <<x>>
    ELSE IF tupleLess(sort_key(x, fmt), sort_key(Last(done), fmt))
         THEN Append(insort(Front(done), x, fmt), Last(done))
         ELSE Append(done, x)
RECURSIVE sorted(_, _)
sorted(list, fmt) ==
    IF list = <<>> THEN <<>> ELSE insort(sorted(Front(list), fmt), Last(list), fmt)

\* the first exception the key computation raises over the list, "none" if none
RECURSIVE sorted_raises(_, _)
sorted_raises(list, fmt) ==
    IF list = <<>> THEN "none"
    ELSE IF sort_key_raises(Head(list), fmt) # "none" THEN sort_key_raises(Head(list), fmt)
    ELSE sorted_raises(Tail(list), fmt)

\* [line.strip() for line in lines if line.strip() and not line.startswith('#')]
RECURSIVE filter_lines(_)
filter_lines(ls) ==
    IF ls = <<>> THEN <<>>
    ELSE IF strip(Head(ls)) # <<>> /\ ~startswith(Head(ls), <<"#">>)
         THEN <<strip(Head(ls))>> \o filter_lines(Tail(ls))
         ELSE filter_lines(Tail(ls))

idleStat ==
    /\ gff = <<>>
    /\ gene_lengths = <<>> /\ mRNA_lengths = <<>>
    /\ mRNA_count_per_gene = <<>>
    /\ CDS_lengths_per_mRNA = <<>> /\ CDS_count_per_mRNA = <<>>
    /\ exon_lengths_per_mRNA = <<>> /\ exon_count_per_mRNA = <<>> /\ exon_end = <<>>
    /\ intron_lengths_per_mRNA = <<>> /\ intron_count_per_mRNA = <<>>
    /\ five_prime_utr_lengths_per_mRNA = <<>> /\ three_prime_utr_lengths_per_mRNA = <<>>
idleCoord ==
    /\ f = <<>> /\ call = <<>> /\ coord = <<>> /\ attributes = <<>> /\ raised = "none"
idleGene ==
    /\ exon_data = <<>> /\ feature_data = <<>> /\ introns = <<>>
idleSort ==
    /\ file = NoFile /\ file_format = "gff3" /\ output = NoFile
    /\ lines = <<>> /\ sorted_lines = <<>> /\ rerun = FALSE

InitSort ==
    /\ op = "sort_features" /\ pc = "start" /\ printed = <<>> /\ feed = "none"
    /\ file \in SortFiles \cup {NoFile}
    /\ file_format \in Formats
    /\ output = NoFile
    /\ lines = <<>> /\ sorted_lines = <<>> /\ rerun = FALSE
    /\ idleStat /\ idleCoord /\ idleGene

\* with open(file_path, 'r') as f: lines = f.readlines()
ReadInput ==
    /\ op = "sort_features" /\ pc = "start"
    /\ IF file = NoFile
       THEN /\ printed' = Append(printed, "Error: File not found.")
            /\ pc' = "done"
            /\ UNCHANGED lines
       ELSE /\ lines' = readlines(file)
            /\ pc' = "read"
            /\ UNCHANGED printed
    /\ UNCHANGED <<op, feed, file, file_format, output, sorted_lines, rerun, statVars, coordVars, geneVars>>

\* lines = [line.strip() for line in lines if ...]
FilterLines ==
    /\ op = "sort_features" /\ pc = "read"
    /\ lines' = filter_lines(lines)
    /\ pc' = "filtered"
    /\ UNCHANGED <<op, feed, printed, file, file_format, output, sorted_lines, rerun, statVars, coordVars, geneVars>>

\* sorted_lines = sorted(lines, key=sort_key); an exception of sort_key ends in
\* `except Exception`
SortLines ==
    /\ op = "sort_features" /\ pc = "filtered"
    /\ IF sorted_raises(lines, file_format) = "none"
       THEN /\ sorted_lines' = sorted(lines, file_format)
            /\ pc' = "sorted"
            /\ UNCHANGED printed
       ELSE /\ printed' = Append(printed, "An error occurred:")
            /\ pc' = "done"
            /\ UNCHANGED sorted_lines
    /\ UNCHANGED <<op, feed, file, file_format, output, lines, rerun, statVars, coordVars, geneVars>>

\* open(output_file, 'w'): the file is created or truncated, or the open fails
\* with an OSError (IOError), which `except IOError` reports
OpenOutput ==
    /\ op = "sort_features" /\ pc = "sorted"
    /\ \/ /\ output' = <<>>
          /\ pc' = "opened"
          /\ UNCHANGED printed
       \/ /\ printed' = Append(printed, "Error: Input/output error.")
          /\ pc' = "done"
          /\ UNCHANGED output
    /\ UNCHANGED <<op, feed, file, file_format, lines, sorted_lines, rerun, statVars, coordVars, geneVars>>

\* f.write('\n'.join(sorted_lines)); a write that fails with an OSError (no
\* space left, device error) leaves the file as it is and ends in
\* `except IOError`
WriteLines ==
    /\ op = "sort_features" /\ pc = "opened"
    /\ \/ /\ output' = output \o join(NL, sorted_lines)
          /\ pc' = "joined"
          /\ UNCHANGED printed
       \/ /\ printed' = Append(printed, "Error: Input/output error.")
          /\ pc' = "done"
          /\ UNCHANGED output
    /\ UNCHANGED <<op, feed, file, file_format, lines, sorted_lines, rerun, statVars, coordVars, geneVars>>

\* f.write('\n'), and the with block closes the file; a failing write as above
WriteNewline ==
    /\ op = "sort_features" /\ pc = "joined"
    /\ \/ /\ output' = Append(output, NL)
          /\ pc' = "done"
          /\ UNCHANGED printed
       \/ /\ printed' = Append(printed, "Error: Input/output error.")
          /\ pc' = "done"
          /\ UNCHANGED output
    /\ UNCHANGED <<op, feed, file, file_format, lines, sorted_lines, rerun, statVars, coordVars, geneVars>>

\* the caller runs sort_features again, with the same format, on the file the
\* first run wrote (file_path = the first output_file, a new output_file)
SortAgain ==
    /\ op = "sort_features" /\ pc = "done" /\ printed = <<>> /\ ~rerun
    /\ file' = output
    /\ output' = NoFile
    /\ lines' = <<>> /\ sorted_lines' = <<>>
    /\ rerun' = TRUE
    /\ pc' = "start"
    /\ UNCHANGED <<op, feed, printed, file_format, statVars, coordVars, geneVars>>

NextSort ==
    \/ ReadInput \/ FilterLines \/ SortLines \/ OpenOutput
    \/ WriteLines \/ WriteNewline \/ SortAgain

SpecSort == InitSort /\ [][NextSort]_vars

\* ------------------------------------------------------------ stat_features
\* add that stores n instead of adding it
add_overwrite(counter, k, n) ==
    IF k \in DOMAIN counter THEN [counter EXCEPT ![k] = n] ELSE counter @@ (k :> n)

\* Counter()[k]: 0 for a missing key, and the read does not insert the key
count_of(counter, k) == IF k \in DOMAIN counter THEN counter[k] ELSE 0
\* counter[k] += n
add(counter, k, n) ==
    IF k \in DOMAIN counter THEN [counter EXCEPT ![k] = @ + n] ELSE counter @@ (k :> n)
\* put that keeps the value of a known key
put_setdefault(d, k, v) ==
    IF k \in DOMAIN d THEN d ELSE d @@ (k :> v)
\* d[k] = v
put(d, k, v) ==
    IF k \in DOMAIN d THEN [d EXCEPT ![k] = v] ELSE d @@ (k :> v)
\* list(d.values()), in an order the statistics do not depend on
RECURSIVE values(_)
values(d) ==
    IF DOMAIN d = {} THEN <<>>
    ELSE LET k == CHOOSE x \in DOMAIN d : TRUE
         IN  <<d[k]>> \o values([x \in DOMAIN d \ {k} |-> d[x]])

\* the result of a regular-expression match that found nothing
NoMatch == <<"None">>
Parent_eq == <<"P","a","r","e","n","t","=">>
\* the longest prefix of s without ';'
RECURSIVE upto_semicolon(_)
upto_semicolon(s) ==
    IF s = <<>> \/ Head(s) = ";" THEN <<>> ELSE <<Head(s)>> \o upto_semicolon(Tail(s))
\* re.search(r'Parent=([^;]+)', attributes): group(1) of the leftmost match
RECURSIVE search_Parent(_)
search_Parent(column9) ==
    IF column9 = <<>> THEN NoMatch
    ELSE IF startswith(column9, Parent_eq)
            /\ upto_semicolon(SubSeq(column9, Len(Parent_eq) + 1, Len(column9))) # <<>>
         THEN upto_semicolon(SubSeq(column9, Len(Parent_eq) + 1, Len(column9)))
         ELSE search_Parent(Tail(column9))

\* stat_line_raises that asks for Parent= only on the types the loop handles
stat_line_raises_handled_only(line) ==
    IF Len(line) < 3 THEN "IndexError"
    ELSE IF Len(line) < 4 THEN "IndexError"
    ELSE IF ~isint(line[4]) THEN "ValueError"
    ELSE IF Len(line) < 5 THEN "IndexError"
    ELSE IF ~isint(line[5]) THEN "ValueError"
    ELSE IF line[3] \in {mRNA, CDS, exon, five_prime_UTR, three_prime_UTR}
            /\ search_Parent(Last(line)) = NoMatch THEN "AttributeError"
    ELSE "none"

\* the exception the body of the loop raises on a record, "none" if none
stat_line_raises(line) ==
    IF Len(line) < 3 THEN "IndexError"
    ELSE IF Len(line) < 4 THEN "IndexError"
    ELSE IF ~isint(line[4]) THEN "ValueError"
    ELSE IF Len(line) < 5 THEN "IndexError"
    ELSE IF ~isint(line[5]) THEN "ValueError"
    ELSE IF line[3] # gene /\ search_Parent(Last(line)) = NoMatch THEN "AttributeError"
    ELSE "none"

\* feature_length and intron_length without their correction by one
feature_length_exclusive(start, end) == end - start
intron_length_plain(start, previous_end) == start - previous_end

\* length = end - start + 1
feature_length(start, end) == end - start + 1
\* start - exon_end[parent] - 1
intron_length(start, previous_end) == start - previous_end - 1

\* sorted(list) of integers
RECURSIVE insort_int(_, _)
insort_int(done, x) ==
    IF done = <<>> THEN <<x>>
    ELSE IF x < Last(done) THEN Append(insort_int(Front(done), x), Last(done))
    ELSE Append(done, x)
RECURSIVE sorted_int(_)
sorted_int(list) ==
    IF list = <<>> THEN <<>> ELSE insort_int(sorted_int(Front(list)), Last(list))
RECURSIVE sum(_)
sum(list) == IF list = <<>> THEN 0 ELSE Head(list) + sum(Tail(list))

\* statistics.median(lengths): the middle item, or the mean of the two middle
\* items; kept as <<numerator, denominator>>
median(lengths) ==
    LET data == sorted_int(lengths)
        n == Len(data)
    IN  IF n % 2 = 1 THEN <<data[(n \div 2) + 1], 1>>
        ELSE <<data[n \div 2] + data[(n \div 2) + 1], 2>>
\* f"{mean_len:.2f}": the mean in hundredths, rounded to the nearest one (a
\* mean of fewer than 8 integers is never half-way between two hundredths)
mean_2f(lengths) == (200 * sum(lengths) + Len(lengths)) \div (2 * Len(lengths))

\* print_stats(name, lengths): the lines it prints
print_stats(name, lengths) ==
    IF Len(lengths) = 0 THEN << <<name, "count", 0>> >>
    ELSE LET data == sorted_int(lengths)
         IN  << <<name, "count", Len(lengths)>>,
                <<name, "max", Last(data)>>,
                <<name, "min", Head(data)>>,
                <<name, "Median/AVG", median(lengths), mean_2f(lengths)>> >>

Parent(p) == Parent_eq \o p
ID(i) == <<"I","D","=">> \o i
c100 == <<"1","0","0">>
c200 == <<"2","0","0">>
c300 == <<"3","0","0">>
c400 == <<"4","0","0">>
c500 == <<"5","0","0">>
c600 == <<"6","0","0">>
\* the lines stat_features is fed.  A "structure" file holds a gene, its mRNA
\* and exons of two mRNAs; a "coding" file holds a gene, CDS of two mRNAs, the
\* two UTRs, a type the function ignores and a comment; both may hold a record
\* without Parent=
StatFeeds == {"structure", "coding"}
StatPool(kind) ==
    IF kind = "structure"
    THEN { Row(c1, gene, c100, c600, ID(<<"g">>)),
           Row(c1, mRNA, c100, c600, ID(<<"m">>) \o <<";">> \o Parent(<<"g">>)),
           Row(c1, exon, c100, c200, Parent(<<"m">>)),
           Row(c1, exon, c300, c400, Parent(<<"m">>)),
           Row(c1, exon, c500, c600, Parent(<<"m">>)),
           Row(c1, exon, c300, c400, Parent(<<"n">>)),
           Row(c1, tRNA, c100, c200, ID(<<"t">>)) }
    ELSE { Row(c1, gene, c100, c600, ID(<<"g">>)),
           Row(c1, CDS, c100, c200, Parent(<<"m">>)),
           Row(c1, CDS, c300, c400, ID(<<"c">>) \o <<";">> \o Parent(<<"n">>)),
           Row(c1, five_prime_UTR, c100, c200, Parent(<<"m">>)),
           Row(c1, three_prime_UTR, c500, c600, Parent(<<"m">>)),
           Row(c1, tRNA, c100, c200, Parent(<<"g">>)),
           Row(c1, CDS, c100, c200, ID(<<"c">>)),
           <<"#">> \o Row(c1, CDS, c100, c200, Parent(<<"m">>)) }

InitStat ==
    /\ op = "stat_features" /\ pc = "loop" /\ printed = <<>>
    /\ feed \in StatFeeds
    /\ idleStat /\ idleSort /\ idleCoord /\ idleGene

\* one pass of `for line in gff`: the next line of the file is read and handled;
\* an exception ends in `except Exception`, which prints it and returns
StatLine ==
    /\ op = "stat_features" /\ pc = "loop" /\ Len(gff) < MaxRecords
    /\ \E text \in StatPool(feed) :
         LET raw == Append(text, NL)
             line == split(strip(raw), TAB)
         IN  /\ gff' = Append(gff, raw)
             /\ IF startswith(raw, <<"#">>) \/ strip(raw) = <<>>
                THEN UNCHANGED <<pc, printed, gene_lengths, mRNA_lengths, mRNA_count_per_gene,
                                 CDS_lengths_per_mRNA, CDS_count_per_mRNA,
                                 exon_lengths_per_mRNA, exon_count_per_mRNA, exon_end,
                                 intron_lengths_per_mRNA, intron_count_per_mRNA,
                                 five_prime_utr_lengths_per_mRNA,
                                 three_prime_utr_lengths_per_mRNA>>
                ELSE IF stat_line_raises(line) # "none"
                THEN /\ printed' = Append(printed, <<"Error", stat_line_raises(line)>>)
                     /\ pc' = "done"
                     /\ UNCHANGED <<gene_lengths, mRNA_lengths, mRNA_count_per_gene,
                                    CDS_lengths_per_mRNA, CDS_count_per_mRNA,
                                    exon_lengths_per_mRNA, exon_count_per_mRNA, exon_end,
                                    intron_lengths_per_mRNA, intron_count_per_mRNA,
                                    five_prime_utr_lengths_per_mRNA,
                                    three_prime_utr_lengths_per_mRNA>>
                ELSE LET type == line[3]
                         start == int(line[4])
                         end == int(line[5])
                         length == feature_length(start, end)
                         parent == search_Parent(Last(line))
                         more == count_of(exon_count_per_mRNA, parent) > 0
                     IN  /\ UNCHANGED <<pc, printed>>
                         /\ gene_lengths' =
                              IF type = gene THEN Append(gene_lengths, length) ELSE gene_lengths
                         /\ mRNA_lengths' =
                              IF type = mRNA THEN Append(mRNA_lengths, length) ELSE mRNA_lengths
                         /\ mRNA_count_per_gene' =
                              IF type = mRNA THEN add(mRNA_count_per_gene, parent, 1)
                              ELSE mRNA_count_per_gene
                         /\ CDS_lengths_per_mRNA' =
                              IF type = CDS THEN add(CDS_lengths_per_mRNA, parent, length)
                              ELSE CDS_lengths_per_mRNA
                         /\ CDS_count_per_mRNA' =
                              IF type = CDS THEN add(CDS_count_per_mRNA, parent, 1)
                              ELSE CDS_count_per_mRNA
                         /\ intron_lengths_per_mRNA' =
                              IF type = exon /\ more
                              THEN add(intron_lengths_per_mRNA, parent, intron_length(start, exon_end[parent]))
                              ELSE intron_lengths_per_mRNA
                         /\ intron_count_per_mRNA' =
                              IF type = exon /\ more
                              THEN add(intron_count_per_mRNA, parent, 1)
                              ELSE intron_count_per_mRNA
                         /\ exon_lengths_per_mRNA' =
                              IF type = exon THEN add(exon_lengths_per_mRNA, parent, length)
                              ELSE exon_lengths_per_mRNA
                         /\ exon_count_per_mRNA' =
                              IF type = exon THEN add(exon_count_per_mRNA, parent, 1)
                              ELSE exon_count_per_mRNA
                         /\ exon_end' =
                              IF type = exon THEN put(exon_end, parent, end) ELSE exon_end
                         /\ five_prime_utr_lengths_per_mRNA' =
                              IF type = five_prime_UTR
                              THEN Append(five_prime_utr_lengths_per_mRNA, length)
                              ELSE five_prime_utr_lengths_per_mRNA
                         /\ three_prime_utr_lengths_per_mRNA' =
                              IF type = three_prime_UTR
                              THEN Append(three_prime_utr_lengths_per_mRNA, length)
                              ELSE three_prime_utr_lengths_per_mRNA
    /\ UNCHANGED <<op, feed, sortVars, coordVars, geneVars>>

\* the file is exhausted: the seven print_stats calls
StatReport ==
    /\ op = "stat_features" /\ pc = "loop"
    /\ printed' = printed
                  \o print_stats("gene", gene_lengths)
                  \o print_stats("mRNA", mRNA_lengths)
                  \o print_stats("CDS", values(CDS_lengths_per_mRNA))
                  \o print_stats("exon", values(exon_lengths_per_mRNA))
                  \o print_stats("intron", values(intron_lengths_per_mRNA))
                  \o print_stats("five_prime_utr", five_prime_utr_lengths_per_mRNA)
                  \o print_stats("three_prime_utr", three_prime_utr_lengths_per_mRNA)
    /\ pc' = "done"
    /\ UNCHANGED <<op, feed, statVars, sortVars, coordVars, geneVars>>

NextStat == StatLine \/ StatReport

SpecStat == InitStat /\ [][NextStat]_vars

\* --------------------------------------------------- extract_features_coord
\* a dict as the pairs <<key, value>> in insertion order
has(dict, k) == \E i \in 1..Len(dict) : dict[i][1] = k
item(dict, k) == dict[CHOOSE i \in 1..Len(dict) : dict[i][1] = k][2]
\* set_item that puts a new key first
set_item_first(dict, k, v) ==
    IF has(dict, k)
    THEN [i \in 1..Len(dict) |-> IF dict[i][1] = k THEN <<k, v>> ELSE dict[i]]
    ELSE <<<<k, v>>>> \o dict
\* dict[k] = v: a new key goes last, a known key keeps its place
set_item(dict, k, v) ==
    IF has(dict, k)
    THEN [i \in 1..Len(dict) |-> IF dict[i][1] = k THEN <<k, v>> ELSE dict[i]]
    ELSE Append(dict, <<k, v>>)
\* append_to that puts x first in the list of k
prepend_to(dict, k, x) ==
    IF has(dict, k) THEN set_item(dict, k, <<x>> \o item(dict, k))
    ELSE Append(dict, <<k, <<x>>>>)

\* coord[k].append(x) on the defaultdict(list)
append_to(dict, k, x) ==
    IF has(dict, k) THEN set_item(dict, k, Append(item(dict, k), x))
    ELSE Append(dict, <<k, <<x>>>>)

\* the longest prefix of s of characters \w matches
RECURSIVE word_prefix(_)
word_prefix(s) ==
    IF s = <<>> \/ ~isword(Head(s)) THEN <<>> ELSE <<Head(s)>> \o word_prefix(Tail(s))
\* the longest prefix of s without '"'
RECURSIVE upto_quote(_)
upto_quote(s) ==
    IF s = <<>> \/ Head(s) = "\"" THEN <<>> ELSE <<Head(s)>> \o upto_quote(Tail(s))
\* pattern.match(attr): <<group('key'), group('value')>>, NoMatch for None.
\* gff3: (?P<key>\w+)=(?P<value>[^;]+)    gtf2: (?P<key>\w+) "(?P<value>[^"]+)"
re_match(fmt, attr) ==
    LET k == word_prefix(attr)
        rest == SubSeq(attr, Len(k) + 1, Len(attr))
    IN  IF k = <<>> THEN NoMatch
        ELSE IF fmt = "gff3"
        THEN IF rest # <<>> /\ Head(rest) = "=" /\ upto_semicolon(Tail(rest)) # <<>>
             THEN <<k, upto_semicolon(Tail(rest))>>
             ELSE NoMatch
        ELSE LET v == upto_quote(SubSeq(rest, 3, Len(rest)))
             IN  IF /\ Len(rest) >= 2 /\ rest[1] = " " /\ rest[2] = "\""
                    /\ v # <<>>
                    /\ Len(rest) >= Len(v) + 3 /\ rest[Len(v) + 3] = "\""
                 THEN <<k, v>>
                 ELSE NoMatch

\* {pattern.match(attr).group('key'): pattern.match(attr).group('value') for attr in attributes}
RECURSIVE attributes_dict(_, _, _)
attributes_dict(fmt, attrs, dict) ==
    IF attrs = <<>> THEN dict
    ELSE LET m == re_match(fmt, Head(attrs))
         IN  attributes_dict(fmt, Tail(attrs), set_item(dict, m[1], m[2]))

\* the exception the body of the loop raises on a record, "none" if none
coord_line_raises(fmt, type, k, line) ==
    IF Len(line) < 3 THEN "IndexError"
    ELSE IF line[3] # type THEN "none"
    ELSE IF Len(line) < 9 THEN "IndexError"
    ELSE IF \E i \in 1..Len(split(line[9], ";")) : re_match(fmt, split(line[9], ";")[i]) = NoMatch
         THEN "AttributeError"
    ELSE IF ~has(attributes_dict(fmt, split(line[9], ";"), <<>>), k) THEN "ValueError"
    ELSE IF ~isint(line[4]) \/ ~isint(line[5]) THEN "ValueError"
    ELSE "none"

gene_id == <<"g","e","n","e","_","i","d">>
\* the calls of extract_features_coord: file_format, feature, key
Calls ==
    { <<"gff3", gene, <<"I","D">>>>,
      <<"gff3", mRNA, <<"I","D">>>>,
      <<"gff3", mRNA, <<"P","a","r","e","n","t">>>>,
      <<"gtf2", gene, gene_id>> }

\* the lines the files of extract_features_coord are made of: genes (one ID
\* twice, on both strands), mRNAs of one gene, a gene with 8 columns, a gene
\* without ID, a gene whose attributes end with ';', a gene with one attribute
\* twice, a GTF gene, a comment
CoordPool ==
    { Row(c1, gene, <<"1">>, <<"5">>, ID(<<"a">>) \o <<";","N","=","x">>),
      Row(c1, gene, <<"7">>, <<"9">>, ID(<<"b">>)),
      Row9(c2, gene, <<"2">>, <<"3">>, <<"-">>, ID(<<"a">>)),
      Row(c1, mRNA, <<"1">>, <<"5">>, ID(<<"m">>) \o <<";">> \o Parent(<<"a">>)),
      Row9(c1, mRNA, <<"2">>, <<"4">>, <<"-">>, ID(<<"n">>) \o <<";">> \o Parent(<<"a">>)),
      join(TAB, <<c1, <<".">>, gene, <<"1">>, <<"5">>, <<".">>, <<"+">>, <<".">>>>),
      Row(c1, gene, <<"1">>, <<"5">>, <<"N","=","x">>),
      Row(c1, gene, <<"1">>, <<"5">>, ID(<<"c">>) \o <<";">>),
      Row(c1, gene, <<"4">>, <<"6">>, ID(<<"a">>) \o <<";","N","=","x",";","N","=","y","=","z">>),
      Row(c1, gene, <<"1">>, <<"5">>, gene_id \o <<" ", "\"", "a", "\"">>),
      <<"#">> \o Row(c1, gene, <<"1">>, <<"5">>, ID(<<"d">>)) }

InitCoord ==
    /\ op = "extract_features_coord" /\ pc = "loop" /\ printed = <<>> /\ feed = "none"
    /\ call \in Calls
    /\ f = <<>> /\ coord = <<>> /\ attributes = <<>> /\ raised = "none"
    /\ idleSort /\ idleStat /\ idleGene

\* one pass of `for line in f`; an exception leaves the function
CoordLine ==
    /\ op = "extract_features_coord" /\ pc = "loop" /\ Len(f) < MaxRows
    /\ \E text \in CoordPool :
         LET raw == Append(text, NL)
             line == split(strip(raw), TAB)
             fmt == call[1]
             feature == call[2]
             key == call[3]
             exc == coord_line_raises(fmt, feature, key, line)
         IN  /\ f' = Append(f, raw)
             /\ IF startswith(raw, <<"#">>) \/ strip(raw) = <<>>
                THEN UNCHANGED <<pc, printed, coord, attributes, raised>>
                ELSE /\ attributes' =
                          IF Len(line) < 3 \/ line[3] # feature \/ Len(line) < 9
                          THEN attributes
                          ELSE IF exc = "AttributeError" THEN split(line[9], ";")
                          ELSE attributes_dict(fmt, split(line[9], ";"), <<>>)
                     /\ IF exc # "none"
                        THEN /\ raised' = exc
                             /\ pc' = "done"
                             /\ printed' =
                                  IF exc = "ValueError"
                                     /\ ~has(attributes_dict(fmt, split(line[9], ";"), <<>>), key)
                                  THEN Append(printed, attributes_dict(fmt, split(line[9], ";"), <<>>))
                                  ELSE printed
                             /\ UNCHANGED coord
                        ELSE /\ coord' =
                                  IF line[3] = feature
                                  THEN append_to(coord,
                                                 item(attributes_dict(fmt, split(line[9], ";"), <<>>), key),
                                                 <<line[1], int(line[4]), int(line[5]), line[7]>>)
                                  ELSE coord
                             /\ UNCHANGED <<pc, printed, raised>>
    /\ UNCHANGED <<op, feed, call, sortVars, statVars, geneVars>>

\* the file is exhausted: return coord
CoordReturn ==
    /\ op = "extract_features_coord" /\ pc = "loop"
    /\ pc' = "done"
    /\ UNCHANGED <<op, feed, printed, coordVars, sortVars, statVars, geneVars>>

NextCoord == CoordLine \/ CoordReturn

SpecCoord == InitCoord /\ [][NextCoord]_vars

\* ------------------------------------------- extract_features_coord: claims
\* extract_features_coord returned its mapping
CoordReturned == op = "extract_features_coord" /\ pc = "done" /\ raised = "none"

\* the value of the key attribute in a ';'-separated attribute column: the
\* text after `key=` (gff3) or between the quotes of `key "..."` (gtf2); ""
\* when no entry is of that key
KeyEntry(fmt, k, column9) ==
    LET entries == split(column9, ";")
        open == IF fmt = "gff3" THEN k \o <<"=">> ELSE k \o <<" ", "\"">>
        at == {i \in 1..Len(entries) : startswith(entries[i], open)}
    IN  IF at = {} THEN <<>>
        ELSE LET e == entries[CHOOSE i \in at : TRUE]
             IN  IF fmt = "gff3" THEN SubSeq(e, Len(open) + 1, Len(e))
                 ELSE SubSeq(e, Len(open) + 1, Len(e) - 1)
\* the lines of the file that are records of the target feature type, each
\* as <<key value, [chromosome, start, end, strand]>>, in file order
RECURSIVE Targets(_, _, _, _)
Targets(ls, fmt, type, k) ==
    IF ls = <<>> THEN <<>>
    ELSE LET cols == split(Front(Head(ls)), TAB)
         IN  IF Head(Head(ls)) # "#" /\ Len(cols) >= 9 /\ cols[3] = type
             THEN << <<KeyEntry(fmt, k, cols[9]),
                       <<cols[1], int(cols[4]), int(cols[5]), cols[7]>>>> >>
                  \o Targets(Tail(ls), fmt, type, k)
             ELSE Targets(Tail(ls), fmt, type, k)
\* the second items of the pairs whose first item is v, in order
RECURSIVE Under(_, _)
Under(pairs, v) ==
    IF pairs = <<>> THEN <<>>
    ELSE IF Head(pairs)[1] = v THEN <<Head(pairs)[2]>> \o Under(Tail(pairs), v)
    ELSE Under(Tail(pairs), v)
\* the first items of the pairs, each once, in the order of first occurrence
RECURSIVE FirstSeen(_, _)
FirstSeen(pairs, seen) ==
    IF pairs = <<>> THEN <<>>
    ELSE IF Head(pairs)[1] \in seen THEN FirstSeen(Tail(pairs), seen)
    ELSE <<Head(pairs)[1]>> \o FirstSeen(Tail(pairs), seen \cup {Head(pairs)[1]})

\* C8: the returned mapping holds, for each value of the key, exactly the
\* [chromosome, start, end, strand] of the records of the target feature type
\* with that key value, in file order; records of other types add nothing;
\* and the keys are in the order in which each first occurs in the file.
C8_GroupedInFileOrder ==
    CoordReturned =>
        LET targets == Targets(f, call[1], call[2], call[3])
            order == FirstSeen(targets, {})
        IN  /\ Len(coord) = Len(order)
            /\ \A i \in 1..Len(order) :
                 /\ coord[i][1] = order[i]
                 /\ coord[i][2] = Under(targets, order[i])

\* C8 witness: a mapping of two keys was returned whose first key holds two
\* records that a record of the second key separates in the file.
C8_Witness ==
    /\ CoordReturned /\ Len(f) = 3
    /\ Len(coord) = 2 /\ Len(coord[1][2]) = 2 /\ coord[1][2][1] # coord[1][2][2]
    /\ Targets(f, call[1], call[2], call[3])[2][1] = coord[2][1]

\* the consumed lines that are records with fewer than 9 tab-separated fields
ShortRecords ==
    {i \in 1..Len(f) :
       /\ Head(f[i]) # "#" /\ strip(f[i]) # <<>>
       /\ Len(split(Front(f[i]), TAB)) < 9}

\* C10: on a record with fewer than 9 tab-separated fields
\* extract_features_coord fails with the malformed-record error; it does not
\* fail with an index error, and it does not accept or skip the record.
C10_MalformedRecordError ==
    (op = "extract_features_coord" /\ ShortRecords # {}) =>
        /\ pc = "done" /\ raised = "MalformedRecordError"

\* the last line consumed, as its tab-separated columns
LastColumns == split(strip(f[Len(f)]), TAB)
\* the last line consumed was a record of the target feature type of a GFF3
\* file with an attribute column, so that the column was split on ';' and its
\* pieces were matched
AttributesParsed ==
    /\ op = "extract_features_coord" /\ f # <<>> /\ call[1] = "gff3"
    /\ Head(f[Len(f)]) # "#" /\ strip(f[Len(f)]) # <<>>
    /\ Len(LastColumns) >= 9 /\ LastColumns[3] = call[2]
\* the place of the first '=' of a token, 0 when it has none
FirstEq(token) ==
    LET at == {i \in 1..Len(token) : token[i] = "="}
    IN  IF at = {} THEN 0 ELSE CHOOSE i \in at : \A j \in at : i <= j
\* a token of the form key=value: a non-empty key of word characters, '=',
\* and a non-empty value
IsKeyValue(token) ==
    /\ FirstEq(token) >= 2 /\ FirstEq(token) < Len(token)
    /\ \A j \in 1..(FirstEq(token) - 1) : isword(token[j])
KeyOf(token) == SubSeq(token, 1, FirstEq(token) - 1)
\* an attribute column of ';'-separated key=value tokens
ValidGff3(column9) ==
    \A i \in 1..Len(split(column9, ";")) : IsKeyValue(split(column9, ";")[i])
\* no two tokens of the column have the same key
DistinctKeys(column9) ==
    LET tokens == split(column9, ";")
    IN  \A i, j \in 1..Len(tokens) : KeyOf(tokens[i]) = KeyOf(tokens[j]) => i = j
\* the entries of a mapping written as key=value and joined by ';'
Serialise(dict) ==
    join(";", [i \in 1..Len(dict) |-> dict[i][1] \o <<"=">> \o dict[i][2]])

\* C11 as stated: for every attribute column of ';'-separated key=value
\* tokens, the mapping extract_features_coord builds from it, written back as
\* key=value joined by ';' in the order of its entries, is the column again.
C11_RoundTripAsStated ==
    (AttributesParsed /\ ValidGff3(LastColumns[9])) =>
        Serialise(attributes) = LastColumns[9]

\* C11 amended: the same for every attribute column of ';'-separated
\* key=value tokens whose keys are pairwise different.
C11_RoundTripDistinctKeys ==
    (AttributesParsed /\ ValidGff3(LastColumns[9]) /\ DistinctKeys(LastColumns[9])) =>
        Serialise(attributes) = LastColumns[9]

\* C11 witness: a column of two key=value tokens with different keys was
\* parsed into a mapping of two entries.
C11_Witness ==
    /\ AttributesParsed /\ ValidGff3(LastColumns[9]) /\ DistinctKeys(LastColumns[9])
    /\ Len(split(LastColumns[9], ";")) = 2 /\ Len(attributes) = 2

\* ------------------------------------------------------ plots/gene.py: Gene
\* column c of a 2D array
column(array, c) == [i \in 1..Len(array) |-> array[i][c]]
\* ndarray.sort(axis=0) of a 2D array: every column is sorted on its own
sort_axis0(array) ==
    LET starts == sorted_int(column(array, 1))
        ends == sorted_int(column(array, 2))
    IN  [i \in 1..Len(array) |-> <<starts[i], ends[i]>>]

\* the rows [start, end] the data of add_exons is made of
ExonRows == {r \in (1..MaxCoord) \X (1..MaxCoord) : r[1] <= r[2]}

\* gene = Gene(...): no feature data yet
InitGene ==
    /\ op = "Gene" /\ pc = "new" /\ printed = <<>> /\ feed = "none"
    /\ exon_data \in SeqsUpTo(ExonRows, MaxExons)
    /\ feature_data = <<>> /\ introns = <<>>
    /\ idleSort /\ idleStat /\ idleCoord

\* gene.add_exons(data): _data = np.asarray(data); _data.sort(axis=0);
\* self.add_feature_data('exon', _data)
add_exons ==
    /\ op = "Gene" /\ pc = "new"
    /\ feature_data' = set_item(feature_data, "exon", sort_axis0(exon_data))
    /\ pc' = "exons"
    /\ UNCHANGED <<op, feed, printed, exon_data, introns, sortVars, statVars, coordVars>>

\* gene.get_introns_from_exons(): the end of every exon but the last beside
\* the start of the next; indexing the 1-D array of an empty data with two
\* indices is an IndexError
get_introns_from_exons ==
    /\ op = "Gene" /\ pc = "exons"
    /\ LET exons == item(feature_data, "exon")
       IN  IF exons = <<>>
           THEN /\ pc' = "IndexError"
                /\ UNCHANGED introns
           ELSE /\ introns' = [i \in 1..(Len(exons) - 1) |-> <<exons[i][2], exons[i + 1][1]>>]
                /\ pc' = "introns"
    /\ UNCHANGED <<op, feed, printed, exon_data, feature_data, sortVars, statVars, coordVars>>

NextGene == add_exons \/ get_introns_from_exons

SpecGene == InitGene /\ [][NextGene]_vars

Init == InitSort \/ InitStat \/ InitCoord \/ InitGene
Next == NextSort \/ NextStat \/ NextCoord \/ NextGene
Spec == Init /\ [][Next]_vars

\* ---------------------------------------------------- stat_features: claims
RECURSIVE Sum(_)
Sum(list) == IF list = <<>> THEN 0 ELSE Head(list) + Sum(Tail(list))

\* a line of the file read as the record the format describes: type, start and
\* end from columns 3 to 5, the parent from the Parent= entry of the
\* ';'-separated attribute column ("" when it has none)
ParentEntry(column9) ==
    LET entries == split(column9, ";")
        at == {i \in 1..Len(entries) :
                 startswith(entries[i], Parent_eq) /\ Len(entries[i]) > Len(Parent_eq)}
    IN  IF at = {} THEN <<>>
        ELSE LET i == CHOOSE n \in at : \A o \in at : n <= o
             IN  SubSeq(entries[i], Len(Parent_eq) + 1, Len(entries[i]))
RecordOf(raw) ==
    LET cols == split(Front(raw), TAB)
    IN  [type |-> cols[3], start |-> int(cols[4]), end |-> int(cols[5]),
         parent |-> ParentEntry(cols[9])]
\* the records consumed so far, comments left out
RECURSIVE RecordsOf(_)
RecordsOf(ls) ==
    IF ls = <<>> THEN <<>>
    ELSE IF Head(Head(ls)) = "#" THEN RecordsOf(Tail(ls))
    ELSE <<RecordOf(Head(ls))>> \o RecordsOf(Tail(ls))
\* the records of one type, and those of them with one parent, in file order
RECURSIVE OfType(_, _)
OfType(rs, type) ==
    IF rs = <<>> THEN <<>>
    ELSE IF Head(rs).type = type THEN <<Head(rs)>> \o OfType(Tail(rs), type)
    ELSE OfType(Tail(rs), type)
RECURSIVE OfParent(_, _)
OfParent(rs, p) ==
    IF rs = <<>> THEN <<>>
    ELSE IF Head(rs).parent = p THEN <<Head(rs)>> \o OfParent(Tail(rs), p)
    ELSE OfParent(Tail(rs), p)
ParentsOf(rs) == {rs[i].parent : i \in 1..Len(rs)}
Span(r) == r.end - r.start + 1
Spans(rs) == [i \in 1..Len(rs) |-> Span(rs[i])]
\* the gap before each record of exons after the first
Gaps(exons) == [i \in 1..(Len(exons) - 1) |-> exons[i + 1].start - exons[i].end - 1]
Coordinates(rs) == [i \in 1..Len(rs) |-> <<rs[i].start, rs[i].end>>]
\* the value print_stats printed for a list, e.g. Printed("gene", "max")
Printed(name, what) ==
    LET at == {i \in 1..Len(printed) : printed[i][1] = name /\ printed[i][2] = what}
    IN  IF at = {} THEN "nothing" ELSE printed[CHOOSE i \in at : TRUE][3]
StatAborted == pc = "done" /\ printed # <<>> /\ printed[1][1] = "Error"
StatReported == pc = "done" /\ ~StatAborted

\* C1: for every parent, each exon record after its first adds an intron of
\* (start - end of the parent's previous exon record in file order - 1),
\* whatever the coordinate order and whatever lies in between; the exons
\* (100,200),(300,400),(500,600) of one parent give the introns 99 and 99.
C1_IntronPerLaterExon ==
    op = "stat_features" =>
        LET all == OfType(RecordsOf(gff), exon)
        IN  \A p \in ParentsOf(all) :
              LET exons == OfParent(all, p)
                  xy == Coordinates(exons)
              IN  /\ Len(exons) >= 2 =>
                       /\ p \in DOMAIN intron_lengths_per_mRNA
                       /\ intron_lengths_per_mRNA[p] = Sum(Gaps(exons))
                       /\ intron_count_per_mRNA[p] = Len(exons) - 1
                  /\ Len(exons) < 2 => p \notin DOMAIN intron_lengths_per_mRNA
                  /\ xy = <<<<100, 200>>, <<300, 400>>>> =>
                       intron_lengths_per_mRNA[p] = 99 /\ intron_count_per_mRNA[p] = 1
                  /\ xy = <<<<100, 200>>, <<300, 400>>, <<500, 600>>>> =>
                       intron_lengths_per_mRNA[p] = 99 + 99 /\ intron_count_per_mRNA[p] = 2

\* C1 witness: the three exons of the example were consumed for one parent
\* with an exon record of another parent between them.
C1_Witness ==
    /\ op = "stat_features" /\ Len(gff) = 4
    /\ LET rs == RecordsOf(gff)
           p == rs[1].parent
       IN  /\ Coordinates(OfParent(OfType(rs, exon), p)) =
                <<<<100, 200>>, <<300, 400>>, <<500, 600>>>>
           /\ intron_lengths_per_mRNA[p] = 198
           /\ rs[2].type = exon /\ rs[2].parent # p

\* the per-parent totals of rs: parent -> sum of the spans of its records
Totals(rs) == [p \in ParentsOf(rs) |-> Sum(Spans(OfParent(rs, p)))]

\* C2: the gene and mRNA statistics are over one length (end - start + 1) per
\* record; the CDS and exon statistics over one value per distinct Parent,
\* the sum of the lengths of the records with that Parent; the UTR lengths
\* are one per record.
C2_PerRecordAndPerParent ==
    (op = "stat_features" /\ ~StatAborted) =>
        LET rs == RecordsOf(gff)
            cds == Totals(OfType(rs, CDS))
            exons == Totals(OfType(rs, exon))
        IN  /\ gene_lengths = Spans(OfType(rs, gene))
            /\ mRNA_lengths = Spans(OfType(rs, mRNA))
            /\ DOMAIN CDS_lengths_per_mRNA = DOMAIN cds
            /\ \A p \in DOMAIN cds : CDS_lengths_per_mRNA[p] = cds[p]
            /\ DOMAIN exon_lengths_per_mRNA = DOMAIN exons
            /\ \A p \in DOMAIN exons : exon_lengths_per_mRNA[p] = exons[p]
            /\ five_prime_utr_lengths_per_mRNA = Spans(OfType(rs, five_prime_UTR))
            /\ three_prime_utr_lengths_per_mRNA = Spans(OfType(rs, three_prime_UTR))
            /\ StatReported =>
                 /\ Printed("gene", "count") = Len(OfType(rs, gene))
                 /\ Printed("mRNA", "count") = Len(OfType(rs, mRNA))
                 /\ Printed("CDS", "count") = Cardinality(DOMAIN cds)
                 /\ Printed("exon", "count") = Cardinality(DOMAIN exons)
                 /\ Printed("five_prime_utr", "count") = Len(OfType(rs, five_prime_UTR))
                 /\ Printed("three_prime_utr", "count") = Len(OfType(rs, three_prime_UTR))
                 /\ \A p \in DOMAIN cds :
                      Printed("CDS", "max") >= cds[p] /\ Printed("CDS", "min") <= cds[p]
                 /\ \A p \in DOMAIN exons :
                      Printed("exon", "max") >= exons[p] /\ Printed("exon", "min") <= exons[p]

\* C2 witness: statistics were printed for a file with two CDS records of one
\* parent and a CDS record of another, so three records gave two values.
C2_Witness ==
    /\ op = "stat_features" /\ StatReported
    /\ Len(OfType(RecordsOf(gff), CDS)) = 3
    /\ Printed("CDS", "count") = 2
    /\ Printed("CDS", "max") = 202

\* the input of the example: one gene and one mRNA spanning 100-600, and the
\* exons (100,200) and (500,600) of one parent in this order
IsExample ==
    /\ Len(gff) = 4
    /\ LET rs == RecordsOf(gff)
       IN  /\ Coordinates(OfType(rs, gene)) = <<<<100, 600>>>>
           /\ Coordinates(OfType(rs, mRNA)) = <<<<100, 600>>>>
           /\ Coordinates(OfType(rs, exon)) = <<<<100, 200>>, <<500, 600>>>>
           /\ Cardinality(ParentsOf(OfType(rs, exon))) = 1

\* what the example input yields, with the intron total left open
ExampleYields(intron_total) ==
    (op = "stat_features" /\ IsExample) =>
        /\ gene_lengths = <<501>>
        /\ mRNA_lengths = <<501>>
        /\ values(exon_lengths_per_mRNA) = <<202>>
        /\ values(intron_lengths_per_mRNA) = <<intron_total>>
        /\ values(intron_count_per_mRNA) = <<1>>
        /\ pc = "done" =>
             /\ Printed("gene", "max") = 501 /\ Printed("gene", "min") = 501
             /\ Printed("mRNA", "max") = 501 /\ Printed("mRNA", "min") = 501
             /\ Printed("exon", "max") = 202 /\ Printed("exon", "count") = 1
             /\ Printed("intron", "max") = intron_total /\ Printed("intron", "count") = 1

\* C3 as stated: on one gene 100-600, one mRNA 100-600 and the exons (100,200)
\* and (500,600) of that mRNA, stat_features yields gene length 501, mRNA
\* length 501, exon total 202, intron total 99 and intron count 1.
C3_ExampleAsStated == ExampleYields(99)

\* C3: on one gene 100-600, one mRNA 100-600 and the exons (100,200) and
\* (500,600) of that mRNA, stat_features yields gene length 501, mRNA length
\* 501, exon total 202, intron count 1 and intron total 299 (500 - 200 - 1).
C3_Example == ExampleYields(500 - 200 - 1)

\* C3 witness: the statistics of the example input were printed.
C3_Witness == op = "stat_features" /\ IsExample /\ pc = "done"

\* the consumed records that are no gene and have no Parent= entry
Orphans(rs) == {i \in 1..Len(rs) : rs[i].type # gene /\ rs[i].parent = <<>>}

\* C9: a record of any type but gene without a Parent= entry makes
\* stat_features abort with an error and print no statistics line, not even
\* for the records before it; a gene record needs no Parent.
C9_MissingParentAborts ==
    op = "stat_features" =>
        LET rs == RecordsOf(gff)
            orphans == Orphans(rs)
        IN  /\ orphans # {} =>
                 /\ pc = "done"
                 /\ Len(printed) = 1 /\ printed[1][1] = "Error"
                 /\ orphans = {Len(rs)} /\ Head(gff[Len(gff)]) # "#"
            /\ StatAborted => orphans # {}

\* C9 witness: a tRNA record without Parent= came after a gene record without
\* Parent= and other records, and only the error was printed.
C9_Witness ==
    /\ op = "stat_features" /\ StatAborted
    /\ Len(gff) >= 3
    /\ RecordOf(gff[Len(gff)]).type = tRNA
    /\ RecordOf(gff[1]).type = gene /\ RecordOf(gff[1]).parent = <<>>

\* the records stat_features has accumulated: all consumed ones but the one it
\* failed on
Accumulated ==
    IF StatAborted THEN Front(RecordsOf(gff)) ELSE RecordsOf(gff)

\* C14: after every consumed record and for every Parent value: with at
\* least one exon record the exon count is the number of these records and
\* the intron count is the exon count minus one; the parent has an
\* intron-total entry exactly when it has two or more exon records; the
\* remembered exon end is the end of its latest exon record; and the report
\* counts one intron value per parent with two or more exon records.
C14_PerParentExonInvariant ==
    op = "stat_features" =>
        LET rs == Accumulated
            all == OfType(rs, exon)
            twice == {p \in ParentsOf(all) : Len(OfParent(all, p)) >= 2}
        IN  /\ DOMAIN exon_count_per_mRNA = ParentsOf(all)
            /\ DOMAIN exon_end = ParentsOf(all)
            /\ DOMAIN intron_lengths_per_mRNA = twice
            /\ DOMAIN intron_count_per_mRNA = twice
            /\ \A p \in ParentsOf(all) :
                 /\ exon_count_per_mRNA[p] = Len(OfParent(all, p))
                 /\ count_of(intron_count_per_mRNA, p) = exon_count_per_mRNA[p] - 1
                 /\ exon_end[p] = Last(OfParent(all, p)).end
            /\ StatReported => Printed("intron", "count") = Cardinality(twice)

\* C14 witness: the report was printed for a file in which one parent has two
\* exon records with different ends and another parent has one.
C14_Witness ==
    /\ op = "stat_features" /\ StatReported
    /\ LET all == OfType(Accumulated, exon)
       IN  \E p, q \in ParentsOf(all) :
             /\ Len(OfParent(all, p)) = 2 /\ Len(OfParent(all, q)) = 1
             /\ OfParent(all, p)[1].end # OfParent(all, p)[2].end
             /\ Printed("intron", "count") = 1

\* ---------------------------------------------------- sort_features: claims
\* sort_features returned without printing an error
SortSucceeded == op = "sort_features" /\ pc = "done" /\ printed = <<>>

\* the lines of a file without their line ends
RECURSIVE chomp(_)
chomp(ls) ==
    IF ls = <<>> THEN <<>>
    ELSE <<IF Last(Head(ls)) = NL THEN Front(Head(ls)) ELSE Head(ls)>> \o chomp(Tail(ls))
LinesOf(content) == chomp(readlines(content))

\* the rank tables as the specification states them
StatedRank(fmt, type) ==
    IF fmt = "gff3"
    THEN CASE type = gene -> 1 [] type = mRNA -> 2 [] type = exon -> 3 [] type = CDS -> 4
           [] type = five_prime_UTR -> 5 [] type = three_prime_UTR -> 6 [] OTHER -> 99
    ELSE CASE type = gene -> 1 [] type = transcript -> 2 [] type = exon -> 3
           [] type = CDS -> 4 [] type = start_codon -> 5 [] type = stop_codon -> 6
           [] type = UTR -> 7 [] OTHER -> 99
HasKey(line) ==
    LET cols == split(line, TAB)
    IN  Len(cols) >= 5 /\ isint(cols[4]) /\ isint(cols[5])
StatedKey(line, fmt) ==
    LET cols == split(line, TAB)
    IN  <<cols[1], int(cols[4]), StatedRank(fmt, cols[3]), int(cols[5])>>
\* k1 <= k2 in the lexicographic order of (string, integer, integer, integer)
KeyLeq(k1, k2) ==
    IF k1[1] # k2[1] THEN strLess(k1[1], k2[1])
    ELSE IF k1[2] # k2[2] THEN k1[2] < k2[2]
    ELSE IF k1[3] # k2[3] THEN k1[3] < k2[3]
    ELSE k1[4] <= k2[4]

\* C4: the lines sort_features wrote are in non-decreasing lexicographic order
\* of (chromosome, start, rank, end) with the ranks of the stated tables, 99
\* for a type the table does not list; so at equal chromosome and start a
\* line of an unlisted type comes after every line of a listed type.
C4_OutputOrdered ==
    (SortSucceeded /\ sorted_lines # <<>>) =>
        LET out == LinesOf(output)
        IN  /\ \A i \in 1..Len(out) : HasKey(out[i])
            /\ \A i \in 1..(Len(out) - 1) :
                   KeyLeq(StatedKey(out[i], file_format), StatedKey(out[i + 1], file_format))
            /\ \A i, j \in 1..Len(out) :
                   LET ki == StatedKey(out[i], file_format)
                       kj == StatedKey(out[j], file_format)
                   IN  (ki[1] = kj[1] /\ ki[2] = kj[2] /\ ki[3] < 99 /\ kj[3] = 99) => i < j

\* C4 witness: an unlisted type was written after a listed type of the same
\* chromosome and start although its end is smaller.
C4_Witness ==
    /\ SortSucceeded
    /\ \E i, j \in 1..Len(LinesOf(output)) :
         LET out == LinesOf(output)
         IN  /\ i < j /\ HasKey(out[i]) /\ HasKey(out[j])
             /\ StatedKey(out[i], file_format)[3] < 99
             /\ StatedKey(out[j], file_format)[3] = 99
             /\ StatedKey(out[j], file_format)[4] < StatedKey(out[i], file_format)[4]

\* the lines of ls that have the key k, in their order in ls
RECURSIVE WithKey(_, _, _)
WithKey(ls, k, fmt) ==
    IF ls = <<>> THEN <<>>
    ELSE IF HasKey(Head(ls)) /\ StatedKey(Head(ls), fmt) = k
         THEN <<Head(ls)>> \o WithKey(Tail(ls), k, fmt)
         ELSE WithKey(Tail(ls), k, fmt)

\* C5: sort_features is stable: the written lines that share a key are in the
\* order in which the input held them.
C5_Stable ==
    SortSucceeded =>
        \A i \in 1..Len(lines) :
            LET k == StatedKey(lines[i], file_format)
            IN  WithKey(LinesOf(output), k, file_format) = WithKey(lines, k, file_format)

\* C5 witness: two different input lines with one key were written, and a line
\* with a smaller key that followed them in the input was written before them.
C5_Witness ==
    /\ SortSucceeded
    /\ \E i, j, n \in 1..Len(lines) :
         /\ i < j /\ j < n /\ lines[i] # lines[j]
         /\ StatedKey(lines[i], file_format) = StatedKey(lines[j], file_format)
         /\ ~KeyLeq(StatedKey(lines[j], file_format), StatedKey(lines[n], file_format))

\* C6: sort_features is idempotent: run on a file it wrote itself, with the
\* same format, it writes that file again, byte for byte.
C6_Idempotent == (SortSucceeded /\ rerun) => output = file

\* the records of a file: its lines that are not blank and do not start with '#'
RECURSIVE Records(_)
Records(ls) ==
    IF ls = <<>> THEN <<>>
    ELSE IF strip(Head(ls)) # <<>> /\ Head(Head(ls)) # "#"
         THEN <<Head(ls)>> \o Records(Tail(ls))
         ELSE Records(Tail(ls))
RECURSIVE Count(_, _)
Count(x, ls) ==
    IF ls = <<>> THEN 0 ELSE (IF Head(ls) = x THEN 1 ELSE 0) + Count(x, Tail(ls))
SamePermutation(a, b) ==
    /\ Len(a) = Len(b)
    /\ \A i \in 1..Len(a) : Count(a[i], a) = Count(a[i], b)

\* C7: what a successful sort_features wrote is a reordering of exactly the
\* input's records: each one unchanged and as often as in the input, no
\* comment, no blank line, nothing added, every line ended by a newline.
C7_OutputIsReordering ==
    SortSucceeded =>
        /\ output # <<>> /\ Last(output) = NL
        /\ SamePermutation(LinesOf(output), Records(LinesOf(file)))

\* sort_features reported a failure and returned
SortFailed == op = "sort_features" /\ pc = "done" /\ printed # <<>>

\* C12: sort_features leaves no partial output: at every point of a run the
\* output file is untouched or holds the complete sorted result (the sorted
\* records, each ended by a newline), and a run that reported a failure has
\* left the output file untouched.
C12_NoPartialOutput ==
    op = "sort_features" =>
        /\ output = NoFile \/ output = join(NL, sorted_lines) \o <<NL>>
        /\ SortFailed => output = NoFile

\* add_exons has stored the exon array
ExonsAdded == op = "Gene" /\ pc \in {"exons", "introns", "IndexError"}

\* C13: after add_exons(data) the stored exon array consists of exactly the
\* rows of data, ordered by ascending start: every stored row is a row of
\* data, as often as data holds it, and none pairs the start of one exon with
\* the end of another.
C13_RowsKept ==
    ExonsAdded =>
        LET stored == item(feature_data, "exon")
        IN  /\ SamePermutation(stored, exon_data)
            /\ \A i \in 1..(Len(stored) - 1) : stored[i][1] <= stored[i + 1][1]
====
